---- MODULE Spec2Model ----
(***************************************************************************)
(* The sqlchain proof-of-work miner (src/miner.py) as a state machine:     *)
(* main() parses and validates the two hashes, installs signal_handler     *)
(* for SIGINT and calls mine(); mine() is the search loop over nonces.     *)
(* SIGINT may be delivered between any two statements once the handler is  *)
(* installed; CPython runs the handler in the main thread to completion.   *)
(***************************************************************************)
EXTENDS Integers, Sequences, FiniteSets, TLC

(***************************************************************************)
(* Python values.  An optional value is None (the empty tuple) or Some(v)  *)
(* (a one-element tuple); a bytes object is a tuple of integers 0..255 and *)
(* a str a tuple of one-character strings.                                 *)
(***************************************************************************)
None == <<>>

Some(v) == <<v>>

\* Python truthiness of an optional int: `if target_zeros`, `if max_iterations`.
Truthy(opt) == opt # None /\ opt[1] # 0

Rep(c, n) == [i \in 1..n |-> c]

(***************************************************************************)
(* Bounds of the model.                                                    *)
(***************************************************************************)
\* The largest nonce the loop is allowed to try.
MaxNonce == 3

\* time.time() readings after start_time range over 0..MaxElapsed.
MaxElapsed == 1

\* The longest text given to key_from_privhex on its own.
MaxHexLen == 4

\* The longest byte string given to parse_hex_string (hex-encoded) and to
\* count_leading_zero_bits on their own, the 32-byte fixtures apart.
MaxBytes == 2

(***************************************************************************)
(* Program constants.                                                      *)
(***************************************************************************)
HashLen == 32

PubLen == 33

NonceLen == 8

DigestSize == 32

(***************************************************************************)
(* Hexadecimal text.                                                       *)
(***************************************************************************)
HexLower == <<"0","1","2","3","4","5","6","7","8","9","a","b","c","d","e","f">>

HexUpper == <<"0","1","2","3","4","5","6","7","8","9","A","B","C","D","E","F">>

Whitespace == {" ", "\t", "\n", "\r"}

IsHexDigit(c) == \E i \in 1..16 : HexLower[i] = c \/ HexUpper[i] = c

HexVal(c) == (CHOOSE i \in 1..16 : HexLower[i] = c \/ HexUpper[i] = c) - 1

\* bytes.fromhex: ASCII whitespace between byte pairs is skipped, every byte
\* is exactly two hex digits; anything else raises ValueError (None here).
RECURSIVE fromhex(_)
fromhex(s) ==
    IF s = <<>> THEN Some(<<>>)
    ELSE IF Head(s) \in Whitespace THEN fromhex(Tail(s))
    ELSE IF Len(s) < 2 \/ ~IsHexDigit(s[1]) \/ ~IsHexDigit(s[2]) THEN None
    ELSE LET rest == fromhex(SubSeq(s, 3, Len(s)))
         IN  IF rest = None THEN None
             ELSE Some(<<16 * HexVal(s[1]) + HexVal(s[2])>> \o rest[1])

\* bytes.hex(): two lower-case hex digits per byte.
hex(data) ==
    [i \in 1..(2 * Len(data)) |->
        LET byte == data[(i + 1) \div 2]
        IN  IF i % 2 = 1 THEN HexLower[(byte \div 16) + 1]
                         ELSE HexLower[(byte % 16) + 1]]

startswith(s, prefix) ==
    Len(s) >= Len(prefix) /\ SubSeq(s, 1, Len(prefix)) = prefix

\* A mutation of parse_hex_string: only the \x prefix is removed.
parse_hex_string_BackslashOnly(hex_str) ==
    IF startswith(hex_str, <<"\\", "x">>) THEN fromhex(SubSeq(hex_str, 3, Len(hex_str)))
    ELSE fromhex(hex_str)

parse_hex_string(hex_str) ==
    IF startswith(hex_str, <<"\\", "x">>) THEN fromhex(SubSeq(hex_str, 3, Len(hex_str)))
    ELSE IF startswith(hex_str, <<"0", "x">>) THEN fromhex(SubSeq(hex_str, 3, Len(hex_str)))
    ELSE fromhex(hex_str)

(***************************************************************************)
(* Key sources (src/crypto.py).                                            *)
(***************************************************************************)
UpperCase == <<"A","B","C","D","E","F","G","H","I","J","K","L","M",
               "N","O","P","Q","R","S","T","U","V","W","X","Y","Z">>

LowerCase == <<"a","b","c","d","e","f","g","h","i","j","k","l","m",
               "n","o","p","q","r","s","t","u","v","w","x","y","z">>

\* str.lower().
lower(s) ==
    [i \in 1..Len(s) |->
        IF \E k \in 1..26 : UpperCase[k] = s[i]
        THEN LowerCase[CHOOSE k \in 1..26 : UpperCase[k] = s[i]]
        ELSE s[i]]

\* str.replace(old, ""): every non-overlapping occurrence of old, from the
\* left, is removed.
RECURSIVE remove(_, _)
remove(s, old) ==
    IF Len(s) < Len(old) THEN s
    ELSE IF SubSeq(s, 1, Len(old)) = old THEN remove(SubSeq(s, Len(old) + 1, Len(s)), old)
    ELSE <<Head(s)>> \o remove(Tail(s), old)

\* crypto.py lines 17-19; None when bytes.fromhex raises ValueError.
key_from_privhex(hex_priv) == fromhex(remove(lower(hex_priv), <<"0", "x">>))

\* A mnemonic phrase is the tuple of its words.
DEFAULT_MNEMONIC ==
    <<"remember", "always", "you", "liberty", "human", "group",
      "will", "win", "over", "abuse", "govern", "virus">>

TestMnemonic ==
    <<"test", "test", "test", "test", "test", "test",
      "test", "test", "test", "test", "test", "junk">>

\* crypto.py lines 21-24.  The BIP39/BIP44 derivation is eth_account's; the
\* model gives each valid phrase and index its own 32-byte key, and None
\* (the library raises) for any other phrase.
key_from_mnemonic(mnemonic, index) ==
    IF mnemonic = DEFAULT_MNEMONIC THEN Some(Rep(17 + index, 32))
    ELSE IF mnemonic = TestMnemonic THEN Some(Rep(34 + index, 32))
    ELSE None

\* crypto.py lines 26-27: the values os.urandom(32) may return in the model.
RandomKeys == {Rep(51, 32), Rep(68, 32)}

\* public_key.to_compressed_bytes(): a sign byte and the 32-byte x
\* coordinate.  The curve arithmetic is eth_keys'; the model uses a fixed
\* one-to-one map of the secret.
to_compressed_bytes(priv_bytes) ==
    <<2 + (priv_bytes[32] % 2)>> \o [i \in 1..32 |-> (priv_bytes[i] + 6) % 256]

\* crypto.py lines 29-31: keys.PrivateKey refuses a secret that is not 32
\* bytes (None); otherwise the public key, here in its compressed form.
derive_public(priv_bytes) ==
    IF Len(priv_bytes) # 32 THEN None ELSE Some(to_compressed_bytes(priv_bytes))

\* Python truthiness of an optional str: `if args.priv_key`, `if args.mnemonic`.
TruthyStr(opt) == opt # None /\ opt[1] # <<>>

(***************************************************************************)
(* count_leading_zero_bits, loop by loop.                                  *)
(***************************************************************************)
\* The inner loop `for i in range(7, -1, -1)`: <<returned, leading_zeros>>.
RECURSIVE BitScan(_, _, _)
BitScan(byte, i, leading_zeros) ==
    IF i < 0 THEN <<FALSE, leading_zeros>>
    ELSE IF (byte \div (2 ^ i)) % 2 = 1 THEN <<TRUE, leading_zeros>>
    ELSE BitScan(byte, i - 1, leading_zeros + 1)

\* A mutation of ByteScan: the first set bit ends the inner loop only (a
\* `break` for the `return`), and the bytes after it are still counted.
RECURSIVE ByteScanNoReturn(_, _, _)
ByteScanNoReturn(data, k, leading_zeros) ==
    IF k > Len(data) THEN leading_zeros
    ELSE IF data[k] = 0 THEN ByteScanNoReturn(data, k + 1, leading_zeros + 8)
    ELSE ByteScanNoReturn(data, k + 1, BitScan(data[k], 7, leading_zeros)[2])

\* The outer loop `for byte in data`, from index k.
RECURSIVE ByteScan(_, _, _)
ByteScan(data, k, leading_zeros) ==
    IF k > Len(data) THEN leading_zeros
    ELSE IF data[k] = 0 THEN ByteScan(data, k + 1, leading_zeros + 8)
    ELSE LET r == BitScan(data[k], 7, leading_zeros)
         IN  IF r[1] THEN r[2] ELSE ByteScan(data, k + 1, r[2])

count_leading_zero_bits(data) == ByteScan(data, 1, 0)

\* n >> (8 * k), one byte at a time.
RECURSIVE ShiftBytes(_, _)
ShiftBytes(n, k) == IF k = 0 THEN n ELSE ShiftBytes(n \div 256, k - 1)

\* A mutation of to_bytes: byteorder='little'.
to_bytes_little(n, length) == [i \in 1..length |-> ShiftBytes(n, i - 1) % 256]

\* int.to_bytes(length, byteorder='big'): the most significant byte first.
to_bytes(n, length) == [i \in 1..length |-> ShiftBytes(n, length - i) % 256]

(***************************************************************************)
(* Inputs.                                                                 *)
(***************************************************************************)
\* A 32-byte digest whose first two bytes are a and b.
DigestBytes(a, b) == <<a, b>> \o Rep(0, DigestSize - 2)

\* The digests sha256 may return in the model: 0, 1, 1 and 9 leading zero bits.
Digests == {DigestBytes(255, 0), DigestBytes(64, 0), DigestBytes(96, 0), DigestBytes(0, 64)}

\* --block-hash: \x-prefixed 32 bytes, 0x-prefixed 31 bytes, not hex.
BlockHashArgs ==
    { <<"\\", "x">> \o Rep("0", 2 * HashLen),
      <<"0", "x">> \o Rep("0", 2 * HashLen - 2),
      <<"z", "z">> }

\* --ledger-hash: unprefixed 32 bytes, unprefixed 33 bytes.
LedgerHashArgs ==
    { <<"a", "B">> \o Rep("1", 2 * HashLen - 2),
      Rep("1", 2 * HashLen + 2) }

TargetZerosArgs == {None, Some(0), Some(1), Some(2)}

MaxIterationsArgs == {None, Some(0), Some(1), Some(2), Some(3)}

\* --priv-key: absent, empty, a 0x-prefixed 32-byte key, not hex.
PrivKeyArgs ==
    { None, Some(<<>>), Some(<<"0", "x">> \o Rep("5", 64)), Some(<<"k", "e", "y">>) }

\* --mnemonic: absent, empty, a valid phrase, an invalid phrase.
MnemonicArgs == { None, Some(<<>>), Some(TestMnemonic), Some(<<"test", "junk">>) }

\* --data of the signing tool.
DataArgs == { <<"a">>, <<"a", "b">> }

VARIABLES
    args,               \* argparse result: block_hash, ledger_hash, target_zeros, max_iterations
    pc,                 \* position of the main thread
    handler,            \* SIGINT disposition: "default" or "signal_handler"
    exit_status,        \* None while the process runs, Some(status) after
    stdout,             \* the lines printed so far
    priv,               \* main()'s local: the secret key, <<>> until assigned
    block_hash, ledger_hash, pub,           \* main()'s locals, mine()'s parameters
    best_nonce, best_hash, best_leading_zeros, iterations, start_time, pbar,  \* module globals
    nonce, hash_result, leading_zeros,      \* mine()'s locals
    oracle,             \* sha256 as sampled so far: payload -> digest
    hashed,             \* the payloads given to sha256, in call order
    search,             \* Idle, Searching, TargetReached, MaxIterationsReached, Cancelled
    sigint,             \* TRUE once SIGINT was delivered to signal_handler
    call,               \* a function called on its own: its name and argument
    ret,                \* what that call returned, None before it returns
    fs                  \* SQLChainManager's directories and server, None in the other tools

vars == <<args, pc, handler, exit_status, stdout, priv, block_hash, ledger_hash, pub,
          best_nonce, best_hash, best_leading_zeros, iterations, start_time, pbar,
          nonce, hash_result, leading_zeros, oracle, hashed, search, sigint, call, ret, fs>>

\* What a run of either tool leaves alone: the stand-alone call and the
\* manager's files.
direct == <<call, ret, fs>>

globals == <<best_nonce, best_hash, best_leading_zeros, iterations, start_time, pbar>>

locals == <<nonce, hash_result, leading_zeros>>

header == <<block_hash, ledger_hash, pub>>

Line(label, value) == [label |-> label, value |-> value]

print(lines) == stdout' = stdout \o lines

\* The module globals as miner.py sets them at import (lines 15-20), with
\* nothing run yet.
Unstarted ==
    /\ handler = "default"
    /\ exit_status = None
    /\ stdout = <<>>
    /\ priv = <<>> /\ block_hash = <<>> /\ ledger_hash = <<>> /\ pub = <<>>
    /\ best_nonce = 0
    /\ best_hash = None
    /\ best_leading_zeros = 0
    /\ iterations = 0
    /\ start_time = None
    /\ pbar = None
    /\ nonce = 0 /\ hash_result = None /\ leading_zeros = 0
    /\ oracle = <<>>
    /\ hashed = <<>>
    /\ search = "Idle"
    /\ sigint = FALSE

Fresh == Unstarted /\ fs = None

NoCall == call = None /\ ret = None

\* The mining tool started with no key option: the default mnemonic.
Init ==
    /\ args \in [priv_key : {None}, mnemonic : {None},
                 block_hash : BlockHashArgs, ledger_hash : LedgerHashArgs,
                 target_zeros : TargetZerosArgs, max_iterations : MaxIterationsArgs]
    /\ pc = "main"
    /\ Fresh
    /\ NoCall

(***************************************************************************)
(* main()                                                                  *)
(***************************************************************************)
\* Lines 173-190: the key source is resolved (--priv-key, else --mnemonic,
\* else the default mnemonic), the public key derived and printed.  A key
\* function that raises ends the process with status 1.
MainDeriveKey ==
    /\ pc = "main" /\ exit_status = None
    /\ LET source == IF TruthyStr(args.priv_key) THEN "[+] Loading private key from hex"
                     ELSE IF TruthyStr(args.mnemonic) THEN "[+] Deriving private key from mnemonic"
                     ELSE "[+] Using DEFAULT mnemonic"
           key == IF TruthyStr(args.priv_key) THEN key_from_privhex(args.priv_key[1])
                  ELSE IF TruthyStr(args.mnemonic) THEN key_from_mnemonic(args.mnemonic[1], 0)
                  ELSE key_from_mnemonic(DEFAULT_MNEMONIC, 0)
       IN  IF key = None
           THEN /\ print(<<Line(source, None)>>)
                /\ exit_status' = Some(1)
                /\ pc' = "exit"
                /\ UNCHANGED <<priv, pub>>
           ELSE IF derive_public(key[1]) = None
           THEN /\ print(<<Line(source, None)>>)
                /\ priv' = key[1]
                /\ exit_status' = Some(1)
                /\ pc' = "exit"
                /\ UNCHANGED pub
           ELSE /\ priv' = key[1]
                /\ pub' = derive_public(key[1])[1]
                /\ print(<<Line(source, None),
                           Line("[+] Public key (compressed)",
                                <<"0", "x">> \o hex(derive_public(key[1])[1]))>>)
                /\ pc' = "parse"
                /\ UNCHANGED exit_status
    /\ UNCHANGED <<args, direct, handler, block_hash, ledger_hash,
                   globals, locals, oracle, hashed, search, sigint>>

\* Lines 193-198: both hex strings parse, or the process exits with status 1.
MainParse ==
    /\ pc = "parse" /\ exit_status = None
    /\ LET b == parse_hex_string(args.block_hash)
           l == parse_hex_string(args.ledger_hash)
       IN  IF b = None \/ l = None
           THEN /\ print(<<Line("[!] Error parsing hex strings", None)>>)
                /\ exit_status' = Some(1)
                /\ pc' = "exit"
                /\ UNCHANGED <<block_hash, ledger_hash>>
           ELSE /\ block_hash' = b[1]
                /\ ledger_hash' = l[1]
                /\ pc' = "validate"
                /\ UNCHANGED <<stdout, exit_status>>
    /\ UNCHANGED <<args, direct, priv, handler, pub, globals, locals, oracle, hashed, search, sigint>>

\* A mutation of WrongLength: only a hash that is too short is refused.
WrongLengthShortOnly(h) == Len(h) < HashLen

\* Lines 201 and 204: `len(...) != 32`.
WrongLength(h) == Len(h) # HashLen

\* Lines 201-206: each hash is 32 bytes, or the process exits with status 1.
MainValidate ==
    /\ pc = "validate" /\ exit_status = None
    /\ IF WrongLength(block_hash)
       THEN /\ print(<<Line("[!] Block hash must be 32 bytes, got", Some(Len(block_hash)))>>)
            /\ exit_status' = Some(1)
            /\ pc' = "exit"
       ELSE IF WrongLength(ledger_hash)
       THEN /\ print(<<Line("[!] Ledger hash must be 32 bytes, got", Some(Len(ledger_hash)))>>)
            /\ exit_status' = Some(1)
            /\ pc' = "exit"
       ELSE /\ pc' = "signal"
            /\ UNCHANGED <<stdout, exit_status>>
    /\ UNCHANGED <<args, direct, priv, handler, header, globals, locals, oracle, hashed, search, sigint>>

\* Line 209: signal.signal(signal.SIGINT, signal_handler).
MainSignal ==
    /\ pc = "signal" /\ exit_status = None
    /\ handler' = "signal_handler"
    /\ pc' = "mine"
    /\ UNCHANGED <<args, direct, priv, exit_status, stdout, header, globals, locals, oracle, hashed, search, sigint>>

(***************************************************************************)
(* mine(block_hash, ledger_hash, pub, args.target_zeros, args.max_iterations) *)
(***************************************************************************)
target_zeros == args.target_zeros

max_iterations == args.max_iterations

\* A mutation of pre_data: the ledger hash is left out.
pre_data_NoLedger == block_hash \o pub

\* Line 104.
pre_data == block_hash \o ledger_hash \o pub

\* Lines 109-110.
data_to_hash(n) == pre_data \o to_bytes(n, NonceLen)

\* crypto.sha256 on a payload already sampled.
sha256(data) == oracle[data]

\* A mutation of Summary: the hash rate is printed whatever elapsed is.
Summary_AlwaysRate(title, elapsed) ==
    << Line(title, None),
       Line("Best nonce found", Some(best_nonce)),
       Line("Best hash (hex)", <<"0", "x">> \o hex(best_hash[1])),
       Line("Leading zero bits", Some(best_leading_zeros)),
       Line("Total iterations", Some(iterations)),
       Line("Time elapsed", Some(elapsed)),
       Line("Hash rate", <<iterations, elapsed>>) >>

\* The summary both mine() and signal_handler print, from the globals as
\* they stand; the hash-rate line only when elapsed > 0.  The rate is the
\* quotient iterations / elapsed, kept as its two operands.
Summary(title, elapsed) ==
    << Line(title, None),
       Line("Best nonce found", Some(best_nonce)),
       Line("Best hash (hex)", <<"0", "x">> \o hex(best_hash[1])),
       Line("Leading zero bits", Some(best_leading_zeros)),
       Line("Total iterations", Some(iterations)),
       Line("Time elapsed", Some(elapsed)) >>
    \o (IF elapsed > 0 THEN <<Line("Hash rate", <<iterations, elapsed>>)>> ELSE <<>>)

\* Lines 82-96: start_time and nonce are set, the banner is printed.
MineStart ==
    /\ pc = "mine" /\ exit_status = None
    /\ start_time' = Some(0)
    /\ nonce' = 0
    /\ print(<<Line("MINING STARTED", None),
               Line("Block hash (hex)", <<"0", "x">> \o hex(block_hash)),
               Line("Ledger hash (hex)", <<"0", "x">> \o hex(ledger_hash)),
               Line("Public key (hex)", <<"0", "x">> \o hex(pub))>>
             \o (IF Truthy(target_zeros)
                 THEN <<Line("Target zeros", target_zeros),
                        Line("Expected iterations", Some(2 ^ target_zeros[1]))>>
                 ELSE <<>>))
    /\ search' = "Searching"
    /\ pc' = "pbar"
    /\ UNCHANGED <<args, direct, priv, handler, exit_status, header, best_nonce, best_hash,
                   best_leading_zeros, iterations, pbar, hash_result, leading_zeros,
                   oracle, hashed, sigint>>

\* Lines 99-104: the progress bar is opened.
MineOpenBar ==
    /\ pc = "pbar" /\ exit_status = None
    /\ LET total_iterations ==
               IF Truthy(max_iterations) THEN max_iterations
               ELSE IF Truthy(target_zeros) THEN Some(2 ^ target_zeros[1])
               ELSE None
       IN  pbar' = Some([total |-> total_iterations, n |-> 0, closed |-> FALSE])
    /\ pc' = "loop"
    /\ UNCHANGED <<args, direct, priv, handler, exit_status, stdout, header, best_nonce, best_hash,
                   best_leading_zeros, iterations, start_time, locals, oracle, hashed,
                   search, sigint>>

\* Mutations of IsBetter: a tie replaces the best; any different count does.
IsBetterOrEqual(lz, best) == lz >= best

IsDifferent(lz, best) == lz # best

\* Line 119: is this digest better than the best so far?
IsBetter(lz, best) == lz > best

\* Lines 109-119: one digest is computed, its leading zero bits counted and
\* compared with the best.  sha256 is a fixed function the model samples on
\* first use: a payload hashed before gets the digest it got then.
MineHash ==
    /\ pc = "loop" /\ exit_status = None
    /\ nonce <= MaxNonce
    /\ LET data == data_to_hash(nonce)
       IN  \E h \in Digests :
              /\ data \in DOMAIN oracle => h = oracle[data]
              /\ oracle' = IF data \in DOMAIN oracle THEN oracle ELSE oracle @@ (data :> h)
              /\ hashed' = Append(hashed, data)
              /\ hash_result' = Some(h)
              /\ leading_zeros' = count_leading_zero_bits(h)
              /\ pc' = IF IsBetter(count_leading_zero_bits(h), best_leading_zeros)
                       THEN "set_best_nonce" ELSE "count"
    /\ UNCHANGED <<args, direct, priv, handler, exit_status, stdout, header, globals, nonce, search, sigint>>

\* Line 120.
MineSetBestNonce ==
    /\ pc = "set_best_nonce" /\ exit_status = None
    /\ best_nonce' = nonce
    /\ pc' = "set_best_hash"
    /\ UNCHANGED <<args, direct, priv, handler, exit_status, stdout, header, best_hash,
                   best_leading_zeros, iterations, start_time, pbar, locals, oracle,
                   hashed, search, sigint>>

\* Line 121.
MineSetBestHash ==
    /\ pc = "set_best_hash" /\ exit_status = None
    /\ best_hash' = hash_result
    /\ pc' = "set_best_leading_zeros"
    /\ UNCHANGED <<args, direct, priv, handler, exit_status, stdout, header, best_nonce,
                   best_leading_zeros, iterations, start_time, pbar, locals, oracle,
                   hashed, search, sigint>>

\* Line 122.
MineSetBestLeadingZeros ==
    /\ pc = "set_best_leading_zeros" /\ exit_status = None
    /\ best_leading_zeros' = leading_zeros
    /\ pc' = "new_best"
    /\ UNCHANGED <<args, direct, priv, handler, exit_status, stdout, header, best_nonce, best_hash,
                   iterations, start_time, pbar, locals, oracle, hashed, search, sigint>>

\* A mutation of TargetReached: the target must be exceeded.
TargetReachedStrict(target, lz) == Truthy(target) /\ lz > target[1]

\* Line 126: the target check made after a new best.
TargetReached(target, lz) == Truthy(target) /\ lz >= target[1]

\* A mutation of MineNewBest: when this iteration also reaches the cap, the
\* target check is skipped and the cap ends the search.
MineNewBest_CapFirst ==
    /\ pc = "new_best" /\ exit_status = None
    /\ IF /\ TargetReached(target_zeros, leading_zeros)
          /\ ~(Truthy(max_iterations) /\ iterations + 1 >= max_iterations[1])
       THEN /\ \E now \in 0..MaxElapsed :
                  print(<<Line("New best", <<nonce, leading_zeros, hash_result[1]>>)>>
                        \o Summary("TARGET DIFFICULTY REACHED!", now - start_time[1]))
            /\ search' = "TargetReached"
            /\ pc' = "close"
       ELSE /\ print(<<Line("New best", <<nonce, leading_zeros, hash_result[1]>>)>>)
            /\ pc' = "count"
            /\ UNCHANGED search
    /\ UNCHANGED <<args, direct, priv, handler, exit_status, header, globals, locals, oracle, hashed, sigint>>

\* Lines 123-139: the new best is announced; if the target is reached the
\* summary is printed and the loop left.
MineNewBest ==
    /\ pc = "new_best" /\ exit_status = None
    /\ IF TargetReached(target_zeros, leading_zeros)
       THEN /\ \E now \in 0..MaxElapsed :
                  print(<<Line("New best", <<nonce, leading_zeros, hash_result[1]>>)>>
                        \o Summary("TARGET DIFFICULTY REACHED!", now - start_time[1]))
            /\ search' = "TargetReached"
            /\ pc' = "close"
       ELSE /\ print(<<Line("New best", <<nonce, leading_zeros, hash_result[1]>>)>>)
            /\ pc' = "count"
            /\ UNCHANGED search
    /\ UNCHANGED <<args, direct, priv, handler, exit_status, header, globals, locals, oracle, hashed, sigint>>

\* Line 141.
MineCount ==
    /\ pc = "count" /\ exit_status = None
    /\ iterations' = iterations + 1
    /\ pc' = "advance"
    /\ UNCHANGED <<args, direct, priv, handler, exit_status, stdout, header, best_nonce, best_hash,
                   best_leading_zeros, start_time, pbar, locals, oracle, hashed, search, sigint>>

\* Mutations of MaxReached: the cap is passed before the loop stops; a
\* missing cap counts as a cap of 1.
MaxReachedOffByOne(cap, done) == Truthy(cap) /\ done > cap[1]

MaxReachedDefaultCap(cap, done) == done >= (IF Truthy(cap) THEN cap[1] ELSE 1)

\* Line 146: the iteration cap.
MaxReached(cap, done) == Truthy(cap) /\ done >= cap[1]

\* Lines 142-147: the nonce advances, the bar is updated, the cap is checked.
MineAdvance ==
    /\ pc = "advance" /\ exit_status = None
    /\ nonce' = nonce + 1
    /\ pbar' = Some([pbar[1] EXCEPT !.n = @ + 1])
    /\ IF MaxReached(max_iterations, iterations)
       THEN /\ search' = "MaxIterationsReached"
            /\ pc' = "close"
       ELSE /\ pc' = "loop"
            /\ UNCHANGED search
    /\ UNCHANGED <<args, direct, priv, handler, exit_status, stdout, header, best_nonce, best_hash,
                   best_leading_zeros, iterations, start_time, hash_result, leading_zeros,
                   oracle, hashed, sigint>>

\* Line 150, then mine() and main() return: the process exits with status 0.
MineClose ==
    /\ pc = "close" /\ exit_status = None
    /\ pbar' = Some([pbar[1] EXCEPT !.closed = TRUE])
    /\ exit_status' = Some(0)
    /\ pc' = "exit"
    /\ UNCHANGED <<args, direct, priv, handler, stdout, header, best_nonce, best_hash,
                   best_leading_zeros, iterations, start_time, locals, oracle, hashed,
                   search, sigint>>

(***************************************************************************)
(* signal_handler(sig, frame): SIGINT arrives while the handler is         *)
(* installed and the process runs.  Line 54 raises TypeError while         *)
(* start_time is None, line 59 raises AttributeError while best_hash is    *)
(* None; an exception raised in the handler ends the process with status   *)
(* 1, sys.exit(0) with status 0.  pc stays where the signal arrived.       *)
(* signal_handler_Counting is a mutation of it that also counts an         *)
(* iteration, signal_handler_NoExit one that returns to the loop after a   *)
(* complete summary instead of calling sys.exit.                           *)
(***************************************************************************)
signal_handler_NoExit ==
    /\ handler = "signal_handler" /\ exit_status = None
    /\ ~sigint
    /\ sigint' = TRUE
    /\ IF start_time = None
       THEN /\ exit_status' = Some(1)
            /\ UNCHANGED stdout
       ELSE \E now \in 0..MaxElapsed :
               IF best_hash = None
               THEN /\ print(<<Line("MINING INTERRUPTED", None),
                               Line("Best nonce found", Some(best_nonce))>>)
                    /\ exit_status' = Some(1)
               ELSE /\ print(Summary("MINING INTERRUPTED", now - start_time[1]))
                    /\ UNCHANGED exit_status
    /\ search' = IF search = "Searching" THEN "Cancelled" ELSE search
    /\ UNCHANGED <<args, direct, priv, pc, handler, header, globals, locals, oracle, hashed>>

signal_handler_Counting ==
    /\ handler = "signal_handler" /\ exit_status = None
    /\ sigint' = TRUE
    /\ iterations' = iterations + 1
    /\ IF start_time = None
       THEN /\ exit_status' = Some(1)
            /\ UNCHANGED stdout
       ELSE \E now \in 0..MaxElapsed :
               IF best_hash = None
               THEN /\ print(<<Line("MINING INTERRUPTED", None),
                               Line("Best nonce found", Some(best_nonce))>>)
                    /\ exit_status' = Some(1)
               ELSE /\ print(Summary("MINING INTERRUPTED", now - start_time[1]))
                    /\ exit_status' = Some(0)
    /\ search' = IF search = "Searching" THEN "Cancelled" ELSE search
    /\ UNCHANGED <<args, direct, priv, pc, handler, header, best_nonce, best_hash,
                   best_leading_zeros, start_time, pbar, locals, oracle, hashed>>

signal_handler ==
    /\ handler = "signal_handler" /\ exit_status = None
    /\ sigint' = TRUE
    /\ IF start_time = None
       THEN /\ exit_status' = Some(1)
            /\ UNCHANGED stdout
       ELSE \E now \in 0..MaxElapsed :
               IF best_hash = None
               THEN /\ print(<<Line("MINING INTERRUPTED", None),
                               Line("Best nonce found", Some(best_nonce))>>)
                    /\ exit_status' = Some(1)
               ELSE /\ print(Summary("MINING INTERRUPTED", now - start_time[1]))
                    /\ exit_status' = Some(0)
    /\ search' = IF search = "Searching" THEN "Cancelled" ELSE search
    /\ UNCHANGED <<args, direct, priv, pc, handler, header, globals, locals, oracle, hashed>>

Next ==
    \/ MainDeriveKey
    \/ MainParse
    \/ MainValidate
    \/ MainSignal
    \/ MineStart
    \/ MineOpenBar
    \/ MineHash
    \/ MineSetBestNonce
    \/ MineSetBestHash
    \/ MineSetBestLeadingZeros
    \/ MineNewBest
    \/ MineCount
    \/ MineAdvance
    \/ MineClose
    \/ signal_handler

Spec == Init /\ [][Next]_vars

(***************************************************************************)
(* The signing tool: main() of src/crypto.py.                              *)
(***************************************************************************)
\* str.encode("utf-8") on the letters the model signs.
encode(text) == [i \in 1..Len(text) |-> IF text[i] = "a" THEN 97 ELSE 98]

\* signature.to_bytes()[:64], r || s.  The ECDSA arithmetic is eth_keys';
\* the model uses a fixed function of the secret and the digest.
sign_rs(priv_bytes, digest) ==
    [i \in 1..64 |-> IF i <= 32 THEN (priv_bytes[i] + digest[i]) % 256
                     ELSE (3 * priv_bytes[i - 32] + digest[i - 32]) % 256]

\* Lines 57-71: --priv-key, else --mnemonic, else --random, else the default
\* mnemonic.  A key function that raises ends the process with status 1.
CryptoMainKey ==
    /\ pc = "crypto_main" /\ exit_status = None
    /\ \E r \in RandomKeys :
          LET source == IF TruthyStr(args.priv_key) THEN "[+] Loading private key from --priv-key"
                        ELSE IF TruthyStr(args.mnemonic) THEN "[+] Deriving private key from --mnemonic"
                        ELSE IF args.random THEN "[+] Generating random private key"
                        ELSE "[+] Using DEFAULT mnemonic"
              key == IF TruthyStr(args.priv_key) THEN key_from_privhex(args.priv_key[1])
                     ELSE IF TruthyStr(args.mnemonic) THEN key_from_mnemonic(args.mnemonic[1], 0)
                     ELSE IF args.random THEN Some(r)
                     ELSE key_from_mnemonic(DEFAULT_MNEMONIC, 0)
          IN  /\ print(<<Line(source, None)>>)
              /\ IF key = None
                 THEN /\ exit_status' = Some(1)
                      /\ pc' = "exit"
                      /\ UNCHANGED priv
                 ELSE /\ priv' = key[1]
                      /\ pc' = "crypto_sign"
                      /\ UNCHANGED exit_status
    /\ UNCHANGED <<args, direct, handler, header, globals, locals, oracle, hashed,
                   search, sigint>>

\* Lines 76-98: the public key is derived, the data hashed and signed, and
\* everything printed.
CryptoMainSign ==
    /\ pc = "crypto_sign" /\ exit_status = None
    /\ IF derive_public(priv) = None
       THEN /\ exit_status' = Some(1)
            /\ UNCHANGED <<pub, stdout, oracle, hashed>>
       ELSE LET msg_bytes == encode(args.data)
            IN  \E digest \in Digests :
                   /\ msg_bytes \in DOMAIN oracle => digest = oracle[msg_bytes]
                   /\ oracle' = IF msg_bytes \in DOMAIN oracle THEN oracle
                                ELSE oracle @@ (msg_bytes :> digest)
                   /\ hashed' = Append(hashed, msg_bytes)
                   /\ pub' = derive_public(priv)[1]
                   /\ print(<<Line("Private key", <<"0", "x">> \o hex(priv)),
                              Line("Public key C", <<"0", "x">> \o hex(derive_public(priv)[1])),
                              Line("Message hex", <<"0", "x">> \o hex(msg_bytes)),
                              Line("SHA-256 digest", <<"0", "x">> \o hex(digest)),
                              Line("Signature", <<"0", "x">> \o hex(sign_rs(priv, digest)))>>)
                   /\ exit_status' = Some(0)
    /\ pc' = "exit"
    /\ UNCHANGED <<args, direct, handler, priv, block_hash, ledger_hash, globals, locals,
                   search, sigint>>

\* Either tool, started with every combination of key options; the mining
\* tool's parser refuses --priv-key together with --mnemonic.
InitKeys ==
    /\ \/ /\ args \in [priv_key : PrivKeyArgs, mnemonic : MnemonicArgs,
                       random : BOOLEAN, data : DataArgs]
          /\ pc = "crypto_main"
       \/ /\ args \in [priv_key : PrivKeyArgs, mnemonic : MnemonicArgs,
                       block_hash : {b \in BlockHashArgs : parse_hex_string(b) # None},
                       ledger_hash : {l \in LedgerHashArgs : Len(l) = 2 * HashLen},
                       target_zeros : {None}, max_iterations : {Some(1)}]
          /\ args.priv_key = None \/ args.mnemonic = None
          /\ pc = "main"
    /\ Fresh
    /\ NoCall

NextKeys ==
    \/ CryptoMainKey
    \/ CryptoMainSign
    \/ Next

SpecKeys == InitKeys /\ [][NextKeys]_vars

(***************************************************************************)
(* The functions of both files called on their own, one call per run.      *)
(***************************************************************************)
\* Every tuple over `alphabet` of length at most n.
RECURSIVE Strings(_, _)
Strings(alphabet, n) ==
    IF n = 0 THEN {<<>>}
    ELSE Strings(alphabet, n - 1)
         \cup {Append(t, c) : t \in {u \in Strings(alphabet, n - 1) : Len(u) = n - 1},
                              c \in alphabet}

\* key_from_privhex(text).
PrivhexCalls ==
    {[fn |-> "key_from_privhex", arg |-> t] : t \in Strings({"0", "x", "X", "a", "1"}, MaxHexLen)}

\* parse_hex_string(prefix + b.hex()), for a byte string b.
ParseCalls ==
    {[fn |-> "parse_hex_string", arg |-> prefix \o hex(b), prefix |-> prefix, bytes |-> b] :
        prefix \in {<<"0", "x">>, <<"\\", "x">>, <<>>},
        b \in Strings({0, 1, 10, 171, 255}, MaxBytes)}

\* count_leading_zero_bits(data): short strings, and 32-byte digests that are
\* all zero, start with 0xFF, start with 0x00 0x40.
CountCalls ==
    {[fn |-> "count_leading_zero_bits", arg |-> d] :
        d \in Strings({0, 1, 64, 128, 255}, MaxBytes)
              \cup {Rep(0, 32), <<255>> \o Rep(0, 31), <<0, 64>> \o Rep(255, 30)}}

InitCalls ==
    /\ call \in PrivhexCalls \cup ParseCalls \cup CountCalls
    /\ ret = None
    /\ args = <<>>
    /\ pc = "call"
    /\ Fresh

\* What a stand-alone call leaves alone: everything but its result.
program == <<args, pc, handler, exit_status, stdout, priv, fs, header, globals, locals,
             oracle, hashed, search, sigint>>

CallKeyFromPrivhex ==
    /\ call.fn = "key_from_privhex" /\ ret = None
    /\ ret' = Some(key_from_privhex(call.arg))
    /\ UNCHANGED <<call, program>>

CallParseHexString ==
    /\ call.fn = "parse_hex_string" /\ ret = None
    /\ ret' = Some(parse_hex_string(call.arg))
    /\ UNCHANGED <<call, program>>

CallCountLeadingZeroBits ==
    /\ call.fn = "count_leading_zero_bits" /\ ret = None
    /\ ret' = Some(count_leading_zero_bits(call.arg))
    /\ UNCHANGED <<call, program>>

NextCalls ==
    \/ CallKeyFromPrivhex
    \/ CallParseHexString
    \/ CallCountLeadingZeroBits

SpecCalls == InitCalls /\ [][NextCalls]_vars

(***************************************************************************)
(* mine() called directly, as a test would, on the all-zero header: no     *)
(* main(), no signal handler installed.                                    *)
(***************************************************************************)
InitMine ==
    /\ call = [fn |-> "mine", n |-> 1] /\ ret = None /\ fs = None
    /\ args \in [target_zeros : TargetZerosArgs, max_iterations : MaxIterationsArgs \ {None}]
    /\ pc = "mine"
    /\ handler = "default"
    /\ exit_status = None
    /\ stdout = <<>>
    /\ priv = <<>>
    /\ block_hash = Rep(0, HashLen) /\ ledger_hash = Rep(0, HashLen) /\ pub = Rep(0, PubLen)
    /\ best_nonce = 0
    /\ best_hash = None
    /\ best_leading_zeros = 0
    /\ iterations = 0
    /\ start_time = None
    /\ pbar = None
    /\ nonce = 0 /\ hash_result = None /\ leading_zeros = 0
    /\ oracle = <<>>
    /\ hashed = <<>>
    /\ search = "Idle"
    /\ sigint = FALSE

NextMine ==
    \/ MineStart
    \/ MineOpenBar
    \/ MineHash
    \/ MineSetBestNonce
    \/ MineSetBestHash
    \/ MineSetBestLeadingZeros
    \/ MineNewBest
    \/ MineCount
    \/ MineAdvance
    \/ MineClose

SpecMine == InitMine /\ [][NextMine]_vars

(***************************************************************************)
(* mine() called a second time in the same process, after the first call   *)
(* returned.  The module globals are what the first call left (line 80     *)
(* declares them, nothing before line 82 assigns them); the locals are     *)
(* new.  exit_status = Some(0) at pc = "exit" is the first call returned.  *)
(***************************************************************************)
SecondPubs == {Rep(0, PubLen), Rep(1, PubLen)}

MineCallAgain ==
    /\ pc = "exit" /\ exit_status = Some(0)
    /\ call.n = 1
    /\ call' = [call EXCEPT !.n = 2]
    /\ \E p \in SecondPubs : pub' = p
    /\ pc' = "mine"
    /\ exit_status' = None
    /\ nonce' = 0 /\ hash_result' = None /\ leading_zeros' = 0
    /\ search' = "Idle"
    /\ UNCHANGED <<args, ret, fs, priv, handler, stdout, block_hash, ledger_hash, globals,
                   oracle, hashed, sigint>>

NextAgain ==
    \/ NextMine
    \/ MineCallAgain

SpecAgain == InitMine /\ [][NextAgain]_vars

(***************************************************************************)
(* SQLChainManager, src/sqlchain.py: main() with the flags --run, --setup, *)
(* --stop, --clean-build, --clean-db, over the build directory, the data   *)
(* directory, postmaster.pid inside it and the server process.  stop(),    *)
(* run() and the two halves of clean_db()/clean_build() are steps of       *)
(* their own; an exception that reaches main() ends the process with       *)
(* status 1.                                                               *)
(***************************************************************************)
\* The files and the server as a run may find them: the pid file lives in
\* the data directory, a running server holds its pid file, and a pid file
\* may be stale.
FsStates ==
    {f \in [build_dir : BOOLEAN, data_dir : BOOLEAN, pid_file : BOOLEAN, postmaster : BOOLEAN] :
        /\ f.pid_file => f.data_dir
        /\ f.postmaster => f.pid_file}

InitManager ==
    /\ args \in [run : BOOLEAN, setup : BOOLEAN, stop : BOOLEAN,
                 clean_build : BOOLEAN, clean_db : BOOLEAN]
    /\ fs \in FsStates
    /\ pc = "sqlchain_main"
    /\ Unstarted
    /\ NoCall

\* What the manager never touches.
idle == <<args, call, ret, handler, priv, header, globals, locals, oracle, hashed, search, sigint>>

\* Lines 38-40.
log(message, level) == Line(message, level)

\* Lines 181-183.
is_running == fs.pid_file

\* What subprocess.run gets from `pg_ctl -D data_dir stop`: no binary
\* without a build; status 0 once a running server has shut down and removed
\* its pid file; status 1 when it does not shut down or the pid file is stale.
pg_ctl_stop ==
    IF ~fs.build_dir THEN {[found |-> FALSE, returncode |-> 127, fs |-> fs]}
    ELSE IF fs.postmaster
    THEN {[found |-> TRUE, returncode |-> 0,
           fs |-> [fs EXCEPT !.postmaster = FALSE, !.pid_file = FALSE]],
          [found |-> TRUE, returncode |-> 1, fs |-> fs]}
    ELSE {[found |-> TRUE, returncode |-> 1, fs |-> fs]}

\* A mutation of run_command_raises: check is not honoured.
run_command_unchecked(check, result) == ~result.found

\* Lines 42-61: run_command raises when the binary is missing, and with
\* check=True when the command's status is not 0.
run_command_raises(check, result) == ~result.found \/ (check /\ result.returncode # 0)

\* Lines 219-235: the outcomes of stop().
stop ==
    IF ~is_running
    THEN {[lines |-> <<log("PostgreSQL is not running", "INFO")>>, fs |-> fs, raised |-> FALSE]}
    ELSE {[lines |-> <<log("Stopping PostgreSQL...", "INFO")>>
                     \o (IF run_command_raises(TRUE, r)
                         THEN (IF r.found THEN <<log("Command failed", "ERROR")>> ELSE <<>>)
                         ELSE <<log("PostgreSQL stopped", "SUCCESS")>>),
           fs |-> r.fs,
           raised |-> run_command_raises(TRUE, r)] : r \in pg_ctl_stop}

\* Lines 144-179: init_db() leaves an existing data directory alone, else
\* initdb creates it or fails.
init_db ==
    IF fs.data_dir THEN {[fs |-> fs, raised |-> FALSE]}
    ELSE {[fs |-> [fs EXCEPT !.data_dir = TRUE], raised |-> FALSE], [fs |-> fs, raised |-> TRUE]}

\* `pg_ctl start` on files f: the server comes up, or pg_ctl fails, or it
\* returns 0 and no pid file is there after the sleep.
pg_ctl_start(f) ==
    {[lines |-> <<log("PostgreSQL started successfully", "SUCCESS")>>,
      fs |-> [f EXCEPT !.postmaster = TRUE, !.pid_file = TRUE], raised |-> FALSE],
     [lines |-> <<log("Command failed", "ERROR")>>, fs |-> f, raised |-> TRUE],
     [lines |-> <<log("Failed to start PostgreSQL", "ERROR")>>, fs |-> f, raised |-> FALSE]}

\* Lines 185-217: the outcomes of run().
run ==
    IF ~fs.build_dir
    THEN {[lines |-> <<log("PostgreSQL not built. Run with --build first.", "ERROR")>>,
           fs |-> fs, raised |-> FALSE]}
    ELSE UNION {IF i.raised THEN {[lines |-> <<log("Command failed", "ERROR")>>,
                                    fs |-> i.fs, raised |-> TRUE]}
                ELSE IF i.fs.pid_file
                THEN {[lines |-> <<log("PostgreSQL is already running", "INFO")>>,
                       fs |-> i.fs, raised |-> FALSE]}
                ELSE pg_ctl_start(i.fs) : i \in init_db}

\* Lines 554-560, 562: an exception ends main() with status 1, its end with 0.
Goto(next) ==
    /\ pc' = next
    /\ exit_status' = IF next = "exit" THEN Some(0) ELSE exit_status

Finish(before, o, next) ==
    /\ fs' = o.fs
    /\ IF o.raised
       THEN /\ print(before \o o.lines \o <<log("[ERROR]", "ERROR")>>)
            /\ pc' = "exit"
            /\ exit_status' = Some(1)
       ELSE /\ print(before \o o.lines)
            /\ Goto(next)

\* Lines 312-316 and 330-334: `if self.is_running(): self.stop()`.
StopIfRunning(message, next) ==
    IF is_running
    THEN \E o \in stop : Finish(<<log(message, "INFO")>>, o, next)
    ELSE Finish(<<log(message, "INFO")>>, [lines |-> <<>>, fs |-> fs, raised |-> FALSE], next)

\* Lines 319-326 and 337-344: the data directory, if there, is removed with
\* all it holds.
RemoveDataDir(message, next) ==
    /\ fs' = IF fs.data_dir THEN [fs EXCEPT !.data_dir = FALSE, !.pid_file = FALSE] ELSE fs
    /\ print((IF fs.data_dir THEN <<log("Removing", "INFO")>> ELSE <<>>)
             \o <<log(message, "SUCCESS")>>)
    /\ Goto(next)

\* Lines 511-523: no flag, the usage is printed.
SqlchainMain ==
    /\ pc = "sqlchain_main" /\ exit_status = None
    /\ IF \A flag \in DOMAIN args : ~args[flag]
       THEN /\ print(<<Line("Common workflows:", None)>>)
            /\ Goto("exit")
       ELSE /\ Goto("main_run")
            /\ UNCHANGED stdout
    /\ UNCHANGED <<fs, idle>>

\* Lines 529-530.
SqlchainRun ==
    /\ pc = "main_run" /\ exit_status = None
    /\ IF args.run
       THEN \E o \in run : Finish(<<>>, o, "main_setup")
       ELSE Goto("main_setup") /\ UNCHANGED <<fs, stdout>>
    /\ UNCHANGED idle

\* Lines 532-533, 248, 312-316: setup() begins with clean_db().
SqlchainSetup ==
    /\ pc = "main_setup" /\ exit_status = None
    /\ IF args.setup
       THEN StopIfRunning("Cleaning up DB...", "setup_rmtree")
       ELSE Goto("main_stop") /\ UNCHANGED <<fs, stdout>>
    /\ UNCHANGED idle

\* Lines 319-326, within setup().
SetupCleanDb ==
    /\ pc = "setup_rmtree" /\ exit_status = None
    /\ RemoveDataDir("Cleanup DB complete!", "setup_run")
    /\ UNCHANGED idle

\* Lines 250-308: the server is started if it is not running; the rest of
\* setup() talks to the database and leaves the files alone.
SetupRun ==
    /\ pc = "setup_run" /\ exit_status = None
    /\ IF ~is_running
       THEN \E o \in run :
               Finish(<<log("PostgreSQL is not running. Starting it...", "WARN")>>, o, "main_stop")
       ELSE Goto("main_stop") /\ UNCHANGED <<fs, stdout>>
    /\ UNCHANGED idle

\* Lines 535-536.
SqlchainStop ==
    /\ pc = "main_stop" /\ exit_status = None
    /\ IF args.stop
       THEN \E o \in stop : Finish(<<>>, o, "main_clean_build")
       ELSE Goto("main_clean_build") /\ UNCHANGED <<fs, stdout>>
    /\ UNCHANGED idle

\* Lines 547-548, 330-334.
SqlchainCleanBuild ==
    /\ pc = "main_clean_build" /\ exit_status = None
    /\ IF args.clean_build
       THEN StopIfRunning("Cleaning up build...", "clean_build_rmtree")
       ELSE Goto("main_clean_db") /\ UNCHANGED <<fs, stdout>>
    /\ UNCHANGED idle

\* Lines 337-344.
CleanBuildRemove ==
    /\ pc = "clean_build_rmtree" /\ exit_status = None
    /\ RemoveDataDir("Cleanup complete!", "main_clean_db")
    /\ UNCHANGED idle

\* Lines 550-551, 312-316.
SqlchainCleanDb ==
    /\ pc = "main_clean_db" /\ exit_status = None
    /\ IF args.clean_db
       THEN StopIfRunning("Cleaning up DB...", "clean_db_rmtree")
       ELSE Goto("exit") /\ UNCHANGED <<fs, stdout>>
    /\ UNCHANGED idle

\* Lines 319-326, then main() returns.
CleanDbRemove ==
    /\ pc = "clean_db_rmtree" /\ exit_status = None
    /\ RemoveDataDir("Cleanup DB complete!", "exit")
    /\ UNCHANGED idle

NextManager ==
    \/ SqlchainMain
    \/ SqlchainRun
    \/ SqlchainSetup
    \/ SetupCleanDb
    \/ SetupRun
    \/ SqlchainStop
    \/ SqlchainCleanBuild
    \/ CleanBuildRemove
    \/ SqlchainCleanDb
    \/ CleanDbRemove

SpecManager == InitManager /\ [][NextManager]_vars

(***************************************************************************)
(* Reading the output back.                                                *)
(***************************************************************************)
TargetTitle == "TARGET DIFFICULTY REACHED!"

InterruptTitle == "MINING INTERRUPTED"

Printed(title) == \E i \in DOMAIN stdout : stdout[i].label = title

TitleIndex(title) == CHOOSE i \in DOMAIN stdout : stdout[i].label = title

\* The first line labelled `label` after the title, if any.
HasField(title, label) ==
    /\ Printed(title)
    /\ \E j \in (TitleIndex(title) + 1)..Len(stdout) : stdout[j].label = label

Field(title, label) ==
    LET first == TitleIndex(title) + 1
        j == CHOOSE j \in first..Len(stdout) :
                 /\ stdout[j].label = label
                 /\ \A k \in first..(j - 1) : stdout[k].label # label
    IN  stdout[j].value

\* The summary under `title` shows best nonce, best digest, leading zero
\* bits and total iterations.
ReportComplete(title) ==
    \A label \in {"Best nonce found", "Best hash (hex)", "Leading zero bits",
                  "Total iterations"} : HasField(title, label)

ReportedNonce(title) == Field(title, "Best nonce found")[1]

ReportedHash(title) == parse_hex_string(Field(title, "Best hash (hex)"))[1]

ReportedZeros(title) == Field(title, "Leading zero bits")[1]

ReportedIterations(title) == Field(title, "Total iterations")[1]

\* The leading zero bits of the digest of nonce n, once hashed.
ZerosOf(n) == count_leading_zero_bits(sha256(data_to_hash(n)))

\* The largest count among the digests of nonces 0..k-1 (k >= 1).
MaxZeros(k) == CHOOSE m \in {ZerosOf(n) : n \in 0..(k - 1)} : \A n \in 0..(k - 1) : ZerosOf(n) <= m

\* The smallest nonce among 0..k-1 whose digest attains MaxZeros(k).
EarliestBest(k) ==
    CHOOSE n \in 0..(k - 1) :
        /\ ZerosOf(n) = MaxZeros(k)
        /\ \A n2 \in 0..(n - 1) : ZerosOf(n2) < MaxZeros(k)

Exited == exit_status # None

\* The loop is between two iterations: about to hash the next nonce.
AtBoundary == pc = "loop"

(***************************************************************************)
(* C1: every terminal transition of mine() -- target reached,              *)
(* max_iterations reached, cancellation -- has produced a final report     *)
(* with best nonce, best digest, leading zero bits and total iterations    *)
(* by the time the process has ended.                                      *)
(***************************************************************************)
C1_FinalReportOnEveryTerminal ==
    (Exited /\ search \in {"TargetReached", "MaxIterationsReached", "Cancelled"})
        => (ReportComplete(TargetTitle) \/ ReportComplete(InterruptTitle))

(***************************************************************************)
(* C2: wherever SIGINT arrives once the handler is installed, the handler  *)
(* prints the complete summary and the process exits with status 0.        *)
(***************************************************************************)
C2_InterruptPrintsSummaryExitsZero ==
    sigint => (exit_status = Some(0) /\ ReportComplete(InterruptTitle))

(***************************************************************************)
(* C3: the best shown by a cancellation report is consistent: the hash is  *)
(* the digest of header + the reported nonce, and the reported count is    *)
(* the count of that hash.                                                 *)
(***************************************************************************)
C3_CancelReportConsistent ==
    ReportComplete(InterruptTitle) =>
        /\ ReportedHash(InterruptTitle) = sha256(data_to_hash(ReportedNonce(InterruptTitle)))
        /\ ReportedZeros(InterruptTitle) = count_leading_zero_bits(ReportedHash(InterruptTitle))

(***************************************************************************)
(* C4: a cancellation report that states k iterations shows the best among *)
(* exactly the digests of nonces 0..k-1; the reported best nonce is below  *)
(* the reported iteration count.                                           *)
(***************************************************************************)
C4_CancelReportBestOfFirstK ==
    ReportComplete(InterruptTitle) =>
        LET k == ReportedIterations(InterruptTitle)
        IN  /\ ReportedNonce(InterruptTitle) < k
            /\ k <= Len(hashed)
            /\ ReportedNonce(InterruptTitle) = EarliestBest(k)
            /\ ReportedZeros(InterruptTitle) = MaxZeros(k)

(***************************************************************************)
(* C5: with max_iterations = N >= 1, a run that ends by the cap has made   *)
(* exactly N digest evaluations, of nonces 0..N-1 in order, and its        *)
(* iteration count (also the progress bar's) is N.                         *)
(***************************************************************************)
C5_BoundedRun ==
    search = "MaxIterationsReached" =>
        LET N == max_iterations[1]
        IN  /\ N >= 1
            /\ iterations = N
            /\ pbar[1].n = N
            /\ Len(hashed) = N
            /\ \A i \in 1..N : hashed[i] = data_to_hash(i - 1)

C5_Witness ==
    /\ search = "MaxIterationsReached"
    /\ max_iterations = Some(3)
    /\ exit_status = Some(0) /\ ~sigint
    /\ Len(hashed) = 3

(***************************************************************************)
(* C6: with target_bits supplied (any integer, 0 included), once an        *)
(* iteration leaves best_leading_zeros >= target_bits the search is over:  *)
(* the loop is never between two iterations with the target met, and no    *)
(* nonce is evaluated after one whose digest met the target.               *)
(***************************************************************************)
C6_TargetStopsSearch ==
    target_zeros # None =>
        /\ (AtBoundary /\ iterations >= 1) => best_leading_zeros < target_zeros[1]
        /\ \A i \in 1..(Len(hashed) - 1) : ZerosOf(i - 1) < target_zeros[1]

(***************************************************************************)
(* C7: best_leading_zeros never decreases, and every recorded best (the    *)
(* globals outside the three assignments of lines 120-122) is a digest of  *)
(* this header: best_hash = sha256(block_hash || ledger_hash || pub ||     *)
(* 8-byte big-endian best_nonce) and best_leading_zeros is its count.      *)
(***************************************************************************)
RecordedBestConsistent ==
    pc \notin {"set_best_hash", "set_best_leading_zeros"} =>
        IF best_hash = None
        THEN best_nonce = 0 /\ best_leading_zeros = 0
        ELSE /\ best_hash[1] = sha256(block_hash \o ledger_hash \o pub \o to_bytes(best_nonce, 8))
             /\ best_leading_zeros = count_leading_zero_bits(best_hash[1])

C7_MonotonicBest ==
    /\ [][best_leading_zeros' >= best_leading_zeros]_vars
    /\ []RecordedBestConsistent

\* The best was replaced twice: 1 leading zero bit at nonce 0 or 1, then 9.
C7_Witness ==
    /\ AtBoundary
    /\ best_nonce >= 2
    /\ best_leading_zeros = 9
    /\ \E n \in 0..(best_nonce - 1) : ZerosOf(n) = 1

(***************************************************************************)
(* C8: between iterations the best nonce is the smallest nonce tried so    *)
(* far whose digest attains the largest leading-zero-bit count seen so     *)
(* far; a later nonce with the same count does not replace it.             *)
(***************************************************************************)
C8_TiesKeepEarliest ==
    (AtBoundary /\ iterations >= 1) =>
        /\ Len(hashed) = iterations
        /\ best_nonce = EarliestBest(iterations)
        /\ best_leading_zeros = MaxZeros(iterations)

\* A later nonce tied with the best, with a different digest.
C8_Witness ==
    /\ AtBoundary /\ iterations >= 2
    /\ best_leading_zeros > 0
    /\ \E n \in (best_nonce + 1)..(iterations - 1) :
          /\ ZerosOf(n) = best_leading_zeros
          /\ sha256(data_to_hash(n)) # best_hash[1]

(***************************************************************************)
(* C9: when either hash decodes to other than 32 bytes the tool exits with *)
(* a non-zero status before the search starts: no digest is computed, no   *)
(* nonce tried, and the best and the iteration count stay as they were.    *)
(***************************************************************************)
C9_BadLengthFailsFast ==
    LET b == parse_hex_string(args.block_hash)
        l == parse_hex_string(args.ledger_hash)
    IN  (b # None /\ l # None /\ (Len(b[1]) # 32 \/ Len(l[1]) # 32)) =>
            /\ pc \in {"main", "parse", "validate", "exit"}
            /\ pc = "exit" => exit_status = Some(1)
            /\ exit_status \in {None, Some(1)}
            /\ search = "Idle"
            /\ hashed = <<>> /\ oracle = <<>>
            /\ nonce = 0 /\ iterations = 0
            /\ best_nonce = 0 /\ best_hash = None /\ best_leading_zeros = 0

\* A 32-byte block hash with a 33-byte ledger hash: refused by line 204.
C9_Witness ==
    /\ Len(block_hash) = 32 /\ Len(ledger_hash) = 33
    /\ pc = "exit"
    /\ exit_status = Some(1)

(***************************************************************************)
(* C10: without target_bits the search never ends as TargetReached,        *)
(* without max_iterations never as MaxIterationsReached; with neither, a   *)
(* search that was started is still searching or was cancelled by SIGINT.  *)
(***************************************************************************)
C10_AbsentConditionNeverFires ==
    /\ target_zeros = None => search # "TargetReached"
    /\ max_iterations = None => search # "MaxIterationsReached"
    /\ (target_zeros = None /\ max_iterations = None /\ search # "Idle") =>
           \/ search = "Searching" /\ ~Exited
           \/ search = "Cancelled" /\ sigint

C10_Witness ==
    /\ target_zeros = None /\ max_iterations = None
    /\ search = "Cancelled"
    /\ iterations >= 2
    /\ exit_status = Some(0)

(***************************************************************************)
(* C11: the secret comes from exactly one source, the first supplied one   *)
(* in the order explicit key, mnemonic, random (signing tool only),        *)
(* default mnemonic; the sources after it have no influence on it.         *)
(***************************************************************************)
SigningTool == "random" \in DOMAIN args

C11_FirstSuppliedSourceUsed ==
    priv # <<>> =>
        IF args.priv_key # None THEN Some(priv) = key_from_privhex(args.priv_key[1])
        ELSE IF args.mnemonic # None THEN Some(priv) = key_from_mnemonic(args.mnemonic[1], 0)
        ELSE IF SigningTool /\ args.random THEN priv \in RandomKeys
        ELSE Some(priv) = key_from_mnemonic(DEFAULT_MNEMONIC, 0)

Returned(fn) == call # None /\ call.fn = fn /\ ret # None

(***************************************************************************)
(* C12: key_from_privhex removes at most one leading 0x (in either case)   *)
(* and decodes the rest strictly as hexadecimal: its result is that of     *)
(* decoding the text without its prefix, an error when that is not hex.    *)
(***************************************************************************)
StripPrefix(text) ==
    IF startswith(lower(text), <<"0", "x">>) THEN SubSeq(text, 3, Len(text)) ELSE text

StrictHex(text) == Len(text) % 2 = 0 /\ \A i \in 1..Len(text) : IsHexDigit(text[i])

C12_PrivhexStripsLeadingPrefixOnly ==
    Returned("key_from_privhex") =>
        IF StrictHex(StripPrefix(call.arg))
        THEN ret[1] = fromhex(StripPrefix(call.arg))
        ELSE ret[1] = None

(***************************************************************************)
(* C13: parse_hex_string gives back b from the hex encoding of b, with a   *)
(* 0x prefix, a \x prefix or no prefix.                                    *)
(***************************************************************************)
C13_HexRoundTrip ==
    Returned("parse_hex_string") => ret[1] = Some(call.bytes)

C13_Witness ==
    /\ Returned("parse_hex_string")
    /\ call.prefix = <<"0", "x">>
    /\ call.bytes = <<171, 10>>
    /\ ret[1] = Some(<<171, 10>>)

(***************************************************************************)
(* C14: count_leading_zero_bits is the number of zero bits before the      *)
(* first one bit, most significant bit first: 8 for each leading zero      *)
(* byte, the 0-7 leading zero bits of the first non-zero byte, nothing     *)
(* from the bytes after it, and 8 * len for an all-zero string.            *)
(***************************************************************************)
BitAt(data, i) == (data[((i - 1) \div 8) + 1] \div (2 ^ (7 - ((i - 1) % 8)))) % 2

LeadingZeroBits(data) ==
    CHOOSE k \in 0..(8 * Len(data)) :
        /\ \A i \in 1..k : BitAt(data, i) = 0
        /\ k = 8 * Len(data) \/ BitAt(data, k + 1) = 1

C14_CountsLeadingZeroBits ==
    Returned("count_leading_zero_bits") =>
        /\ ret[1] = LeadingZeroBits(call.arg)
        /\ (\A i \in 1..Len(call.arg) : call.arg[i] = 0) => ret[1] = 8 * Len(call.arg)

\* 0x00 0x40 followed by 0xFF bytes: 9.
C14_Witness ==
    /\ Returned("count_leading_zero_bits")
    /\ Len(call.arg) = 32 /\ call.arg[1] = 0 /\ call.arg[2] = 64 /\ call.arg[3] = 255
    /\ ret[1] = 9

(***************************************************************************)
(* C15: the i-th digest of a run is computed over block_hash, ledger_hash, *)
(* pub and the nonce i-1 as 8 big-endian bytes, in that order: the nonces  *)
(* are 0, 1, 2, ... with none skipped or repeated, over one header.        *)
(***************************************************************************)
C15_NoncesInOrderOverHeader ==
    /\ \A i \in 1..Len(hashed) :
          hashed[i] = block_hash \o ledger_hash \o pub \o <<0, 0, 0, 0, 0, 0, 0, i - 1>>
    /\ pc \in {"loop", "close"} /\ search # "TargetReached" => nonce = Len(hashed)

C15_Witness ==
    /\ Len(hashed) = MaxNonce + 1
    /\ hashed[MaxNonce + 1][HashLen + HashLen + PubLen + NonceLen] = MaxNonce
    /\ Len(block_hash) = HashLen /\ Len(pub) = PubLen

(***************************************************************************)
(* C16: on the header of 32, 32 and 33 zero bytes the payload hashed for   *)
(* nonce 0 is 73 zero bytes.  As amended: 105 zero bytes.                  *)
(***************************************************************************)
ZeroHeader ==
    block_hash = Rep(0, 32) /\ ledger_hash = Rep(0, 32) /\ pub = Rep(0, 33)

C16_FixturePayload73 ==
    ZeroHeader /\ hashed # <<>> => hashed[1] = Rep(0, 73)

C16_FixturePayload105 ==
    ZeroHeader /\ hashed # <<>> => hashed[1] = Rep(0, 105)

C16_Witness ==
    ZeroHeader /\ hashed # <<>> /\ Len(hashed[1]) = 105 /\ iterations = 1

(***************************************************************************)
(* C18: once the first iteration is complete the best is defined and       *)
(* describes a digest computed in this run, whatever its leading zero      *)
(* bits.                                                                   *)
(***************************************************************************)
C18_FirstDigestBecomesBest ==
    AtBoundary /\ iterations >= 1 =>
        /\ best_hash # None
        /\ \E i \in 1..Len(hashed) :
              /\ best_nonce = i - 1
              /\ best_hash = Some(oracle[hashed[i]])
              /\ best_leading_zeros = count_leading_zero_bits(oracle[hashed[i]])

(***************************************************************************)
(* C19: the total iterations of every final report, target reached or      *)
(* interrupted, is the number of digests computed in the run.              *)
(***************************************************************************)
C19_ReportCountsEveryDigest ==
    \A title \in {TargetTitle, InterruptTitle} :
        ReportComplete(title) => ReportedIterations(title) = Len(hashed)

(***************************************************************************)
(* C20: signal_handler leaves best_nonce, best_hash, best_leading_zeros,   *)
(* iterations and nonce unchanged; only the steps of the search loop write *)
(* them.                                                                   *)
(***************************************************************************)
searchState == <<best_nonce, best_hash, best_leading_zeros, iterations, nonce>>

C20_HandlerReadsOnly ==
    [][/\ sigint' # sigint => UNCHANGED searchState
       /\ searchState' # searchState =>
             /\ sigint' = sigint
             /\ pc \in {"mine", "set_best_nonce", "set_best_hash",
                        "set_best_leading_zeros", "count", "advance"}]_vars

C20_Witness ==
    /\ sigint /\ exit_status = Some(0)
    /\ ReportComplete(InterruptTitle)
    /\ iterations >= 1 /\ best_hash # None

(***************************************************************************)
(* C21: once SIGINT has been handled no further nonce is hashed and        *)
(* neither the best nor the iteration count changes.                       *)
(***************************************************************************)
C21_FrozenAfterCancel ==
    [][sigint => UNCHANGED <<hashed, best_nonce, best_hash, best_leading_zeros, iterations>>]_vars

\* Interrupted in flight: the second digest is computed and not yet counted.
C21_Witness ==
    /\ sigint /\ Exited
    /\ pc = "count" /\ Len(hashed) = 2 /\ iterations = 1

(***************************************************************************)
(* C22: on every terminal path, interruption by SIGINT included, the       *)
(* progress bar opened by mine() is closed before the process ends.        *)
(***************************************************************************)
C22_BarClosedOnEveryTerminal ==
    Exited /\ pbar # None => pbar[1].closed

Titles == {"MINING STARTED", TargetTitle, InterruptTitle}

\* The lines of the report under `title`: up to the next title or the end.
ReportLines(title) ==
    LET first == TitleIndex(title) + 1
        ends  == {j \in first..Len(stdout) : stdout[j].label \in Titles} \cup {Len(stdout) + 1}
        last  == (CHOOSE j \in ends : \A k \in ends : j <= k) - 1
    IN  SubSeq(stdout, first, last)

ReportLine(title, label) ==
    LET lines == ReportLines(title)
    IN  lines[CHOOSE j \in DOMAIN lines : lines[j].label = label].value

Shows(title, label) ==
    Printed(title) /\ \E j \in DOMAIN ReportLines(title) : ReportLines(title)[j].label = label

C24_RateOnlyWhenElapsedPositive ==
    \A title \in {TargetTitle, InterruptTitle} :
        /\ Shows(title, "Hash rate") =>
              /\ Shows(title, "Time elapsed") /\ Shows(title, "Total iterations")
              /\ ReportLine(title, "Time elapsed")[1] > 0
              /\ ReportLine(title, "Hash rate") =
                    <<ReportLine(title, "Total iterations")[1], ReportLine(title, "Time elapsed")[1]>>
        /\ Shows(title, "Time elapsed") /\ ReportLine(title, "Time elapsed")[1] > 0 =>
              Shows(title, "Hash rate")

\* Both reports in one run: the target report at elapsed 0 without a rate,
\* the interrupt report after it at elapsed 1 with one.
C24_Witness ==
    /\ Shows(TargetTitle, "Time elapsed") /\ ReportLine(TargetTitle, "Time elapsed")[1] = 0
    /\ ~Shows(TargetTitle, "Hash rate")
    /\ Shows(InterruptTitle, "Hash rate")
    /\ ReportLine(InterruptTitle, "Hash rate")[2] = 1

(***************************************************************************)
(* C25: a search with target T >= 1 that ends as TargetReached reports     *)
(* the smallest nonce whose digest has at least T leading zero bits, and   *)
(* every nonce up to it was hashed exactly once.                           *)
(***************************************************************************)
C25_SmallestNonceReachingTarget ==
    ReportComplete(TargetTitle) /\ Truthy(target_zeros) =>
        LET n == ReportedNonce(TargetTitle)
        IN  /\ Len(hashed) = n + 1
            /\ \A i \in 1..Len(hashed) : hashed[i] = data_to_hash(i - 1)
            /\ ZerosOf(n) >= target_zeros[1]
            /\ \A m \in 0..(n - 1) : ZerosOf(m) < target_zeros[1]

C25_Witness ==
    /\ ReportComplete(TargetTitle)
    /\ target_zeros = Some(2)
    /\ ReportedNonce(TargetTitle) = 2
    /\ ZerosOf(0) = 1 /\ ZerosOf(1) = 0 /\ ZerosOf(2) = 9

(***************************************************************************)
(* C26: every call of mine() starts from a fresh search state: on entry    *)
(* of a second call in the same process the best result and the iteration  *)
(* count are those of a new search, not what the first call left.          *)
(***************************************************************************)
SecondCallEntered == call # None /\ call.fn = "mine" /\ call.n = 2 /\ pc = "pbar"

C26_SecondRunStartsFresh ==
    SecondCallEntered =>
        /\ iterations = 0
        /\ best_nonce = 0 /\ best_hash = None /\ best_leading_zeros = 0

(***************************************************************************)
(* C27: clean_db and clean_build, and setup through clean_db, never remove *)
(* the data directory while the server is running: a running server is     *)
(* stopped first, and when stop() fails the data directory is left as it   *)
(* is.                                                                     *)
(***************************************************************************)
C27_NoRemovalWhileRunning ==
    [][/\ fs.data_dir /\ ~fs'.data_dir => ~fs.postmaster /\ ~fs.pid_file
       /\ exit_status' = Some(1) /\ fs.data_dir => fs'.data_dir
       /\ exit_status # None => fs' = fs]_vars

\* --clean-db alone on a running server: stopped, then removed.
C27_Witness ==
    /\ pc = "exit" /\ exit_status = Some(0)
    /\ args.clean_db /\ ~args.setup /\ ~args.clean_build /\ ~args.stop /\ ~args.run
    /\ ~fs.data_dir /\ ~fs.postmaster
    /\ \E i, j \in DOMAIN stdout :
          /\ i < j
          /\ stdout[i].label = "PostgreSQL stopped"
          /\ stdout[j].label = "Removing"

====
